---------------------------- MODULE Spec2Model ----------------------------
(***************************************************************************)
(* A model of warcat's document model (warcat/model.py): the Fields        *)
(* name/value list, the Header / Record / content-block parsers, the WARC  *)
(* sequential reader and the lazy BinaryFileRef reader.                    *)
(*                                                                         *)
(* Text and bytes are sequences of one-character strings; the model only   *)
(* uses ASCII, so str.encode() / bytes.decode() keep the sequence as is.   *)
(***************************************************************************)
EXTENDS Integers, Sequences, FiniteSets, TLC

VARIABLES
    fields,     \* Fields._list of the Fields object under test
    last,       \* the last Fields operation, its arguments and its result
    file,       \* the bytes of the WARC source being read
    layout,     \* how the source was laid out (one entry per record written)
    mode,       \* "load": WARC.read_file_object; "stream": a caller of read_record
    cursor,     \* file_object.tell() of the WARC source
    records,    \* WARC.records
    status,     \* "reading", "done", or "error"
    rr,         \* what the last read_record call did
    fsize,      \* size of each file that BinaryFileRef objects name
    cache,      \* util.file_cache: filename -> open handle (its position)
    it          \* the iter_bytes_over_source_file generator being consumed (n: its number)

fvars == <<fields, last>>
wvars == <<file, layout, mode, cursor, records, status, rr>>
rvars == <<fsize, cache, it>>
vars == <<fields, last, file, layout, mode, cursor, records, status, rr,
          fsize, cache, it>>

-----------------------------------------------------------------------------
(* Characters and strings *)

CR == "\r"
LF == "\n"
TAB == "\t"

\* NEWLINE = '\r\n'
NEWLINE == <<CR, LF>>

\* FIELD_DELIM_BYTES = NEWLINE_BYTES * 2
FIELD_DELIM_BYTES == NEWLINE \o NEWLINE

\* None, where a string is expected
None == <<"None">>

Min(a, b) == IF a <= b THEN a ELSE b
Max(a, b) == IF a >= b THEN a ELSE b

UpperCase == <<"A","B","C","D","E","F","G","H","I","J","K","L","M",
               "N","O","P","Q","R","S","T","U","V","W","X","Y","Z">>
LowerCase == <<"a","b","c","d","e","f","g","h","i","j","k","l","m",
               "n","o","p","q","r","s","t","u","v","w","x","y","z">>

\* str.lower(), one character
LowerChar(c) ==
    IF \E i \in 1..26 : UpperCase[i] = c
    THEN LowerCase[CHOOSE i \in 1..26 : UpperCase[i] = c]
    ELSE c

\* str.lower()
Lower(s) == [i \in 1..Len(s) |-> LowerChar(s[i])]

\* x[0].lower() == name.lower()
SameName(a, b) == Lower(a) = Lower(b)

\* str.startswith(prefix)
StartsWith(s, p) == Len(s) >= Len(p) /\ SubSeq(s, 1, Len(p)) = p

\* s[n:]
Drop(s, n) == SubSeq(s, n + 1, Len(s))

\* the characters str.lstrip() removes (of the characters the model uses)
Whitespace == {" ", TAB, CR, LF}

\* str.lstrip()
RECURSIVE LStrip(_)
LStrip(s) ==
    IF s # <<>> /\ s[1] \in Whitespace THEN LStrip(Tail(s)) ELSE s

\* index of the first occurrence of pat in s at or after position from (1-based), 0 if none
RECURSIVE FindFrom(_, _, _)
FindFrom(s, pat, from) ==
    IF from + Len(pat) - 1 > Len(s) THEN 0
    ELSE IF SubSeq(s, from, from + Len(pat) - 1) = pat THEN from
    ELSE FindFrom(s, pat, from + 1)

Find(s, pat) == FindFrom(s, pat, 1)

\* re.split(newline, s) / str.split(sep): every piece
RECURSIVE SplitAll(_, _)
SplitAll(s, sep) ==
    LET i == Find(s, sep) IN
    IF i = 0 THEN <<s>>
    ELSE <<SubSeq(s, 1, i - 1)>> \o SplitAll(Drop(s, i + Len(sep) - 1), sep)

\* str.split(sep, 1): one piece when sep is absent, else two
Split1(s, sep) ==
    LET i == Find(s, sep) IN
    IF i = 0 THEN <<s>>
    ELSE <<SubSeq(s, 1, i - 1), Drop(s, i + Len(sep) - 1)>>

Digits == <<"0","1","2","3","4","5","6","7","8","9">>
IsDigit(c) == \E d \in 1..10 : Digits[d] = c
DigitVal(c) == (CHOOSE d \in 1..10 : Digits[d] = c) - 1

\* int(s) accepts s (decimal digits; the sources the model builds hold nothing else)
IsInt(s) == s # <<>> /\ \A i \in 1..Len(s) : IsDigit(s[i])

\* int(s)
RECURSIVE ParseInt(_)
ParseInt(s) ==
    IF s = <<>> THEN 0
    ELSE 10 * ParseInt(SubSeq(s, 1, Len(s) - 1)) + DigitVal(s[Len(s)])

\* '{}'.format(i) of a non-negative int
RECURSIVE IntStr(_)
IntStr(n) ==
    IF n < 10 THEN <<Digits[n + 1]>>
    ELSE IntStr(n \div 10) \o <<Digits[(n % 10) + 1]>>

-----------------------------------------------------------------------------
(* class Fields *)

\* Fields.index: the first i whose name matches, 0 for KeyError
Fields_index(list, name) ==
    IF \E i \in 1..Len(list) : SameName(list[i][1], name)
    THEN CHOOSE i \in 1..Len(list) :
            /\ SameName(list[i][1], name)
            /\ \A j \in 1..(i - 1) : ~SameName(list[j][1], name)
    ELSE 0

\* Fields.__getitem__ / Fields.get: the first matching value, else None
Fields_get(list, name) ==
    LET i == Fields_index(list, name) IN
    IF i = 0 THEN None ELSE list[i][2]

\* Fields.__delitem__
RECURSIVE Fields_delitem(_, _)
Fields_delitem(list, name) ==
    IF list = <<>> THEN <<>>
    ELSE IF SameName(Head(list)[1], name) THEN Fields_delitem(Tail(list), name)
    ELSE <<Head(list)>> \o Fields_delitem(Tail(list), name)

\* list.insert(index, x), index 0-based
ListInsert(list, index, x) ==
    LET k == Min(index, Len(list)) IN
    SubSeq(list, 1, k) \o <<x>> \o Drop(list, k)

\* a set that inserts at the front instead of at the first occurrence
Fields_setitem_front(list, name, value) ==
    LET index == Fields_index(list, name) IN
    IF index = 0 THEN Append(list, <<name, value>>)
    ELSE ListInsert(Fields_delitem(list, name), 0, <<name, value>>)

\* Fields.__setitem__
Fields_setitem(list, name, value) ==
    LET index == Fields_index(list, name) IN
    IF index = 0 THEN Append(list, <<name, value>>)
    ELSE ListInsert(Fields_delitem(list, name), index - 1, <<name, value>>)

\* Fields.add
Fields_add(list, name, value) == Append(list, <<name, value>>)

\* Fields.iter_str joined: str(fields)
RECURSIVE Fields_str(_)
Fields_str(list) ==
    IF list = <<>> THEN <<>>
    ELSE Head(list)[1] \o <<":", " ">> \o Head(list)[2] \o NEWLINE
         \o Fields_str(Tail(list))

\* Fields.join_multilines: the folded value and the lines left in the deque
RECURSIVE join_multilines(_, _)
join_multilines(value, lines) ==
    IF lines = <<>> THEN [value |-> value, lines |-> lines]
    ELSE LET line == Head(lines) IN
         IF line = <<>> THEN [value |-> value, lines |-> Tail(lines)]
         ELSE IF line[1] \notin {" ", TAB} THEN [value |-> value, lines |-> lines]
         ELSE join_multilines(value \o Tail(line), Tail(lines))

\* a parse that keeps the value as split, without value.lstrip()
ParseValue_nostrip(v) == v

\* value = value.lstrip()
ParseValue(v) == LStrip(v)

\* the while loop of Fields.parse over the deque of lines
RECURSIVE ParseLines(_, _)
ParseLines(lines, acc) ==
    IF lines = <<>> THEN [ok |-> TRUE, list |-> acc]
    ELSE LET line == Head(lines) IN
         IF line = <<>> THEN ParseLines(Tail(lines), acc)
         ELSE LET nv == Split1(line, <<":">>) IN
              IF Len(nv) < 2 THEN [ok |-> FALSE, list |-> acc]  \* ValueError
              ELSE LET j == join_multilines(ParseValue(nv[2]), Tail(lines)) IN
                   ParseLines(j.lines, Append(acc, <<nv[1], j.value>>))

\* Fields.parse
Fields_parse(s) == ParseLines(SplitAll(s, NEWLINE), <<>>)


-----------------------------------------------------------------------------
(* File objects: a byte sequence and a position *)

\* file_object.read(n) at position pos
Read(f, pos, n) == SubSeq(f, pos + 1, Min(pos + n, Len(f)))

\* a peek that also reports data at the end of the file
Peek_le(f, pos) == pos <= Len(f)

\* file_object.peek(1) returns data: some byte is left, none is consumed
Peek(f, pos) == pos < Len(f)

\* limit of util.find_file_pattern when the search is not bounded
NoLimit == -1

\* util.find_file_pattern(file_obj, pattern, limit, inclusive=True): the offset from
\* pos of the end of the first occurrence of pattern that lies within limit bytes,
\* 0 for ValueError (not found); the position of file_obj is left where it was
find_file_pattern(f, pos, pattern, limit) ==
    LET window == IF limit = NoLimit THEN Drop(f, pos) ELSE Read(f, pos, limit)
        i == Find(window, pattern)
    IN IF i = 0 THEN 0 ELSE i - 1 + Len(pattern)

-----------------------------------------------------------------------------
(* class HTTPHeaders, class Header *)

S_WARC == <<"W","A","R","C">>
S_ContentLength == <<"C","o","n","t","e","n","t","-","L","e","n","g","t","h">>
S_content_type == <<"c","o","n","t","e","n","t","-","t","y","p","e">>
S_application_http == <<"a","p","p","l","i","c","a","t","i","o","n","/","h","t","t","p">>
S_warc_fields == <<"a","p","p","l","i","c","a","t","i","o","n","/","w","a","r","c","-","f","i","e","l","d","s">>

\* HTTPHeaders.parse, after the split: the status line st and the parsed rest p
HTTPHeaders_make(st, p) == [ok |-> p.ok, status |-> st, list |-> p.list]

\* HTTPHeaders.parse, the unpacking of s.split(newline, 1)
HTTPHeaders_unpack(parts) ==
    IF Len(parts) < 2 THEN [ok |-> FALSE, status |-> <<>>, list |-> <<>>]  \* ValueError
    ELSE HTTPHeaders_make(parts[1], Fields_parse(parts[2]))

\* HTTPHeaders.parse: the first line is the status, the rest are fields
HTTPHeaders_parse(s) == HTTPHeaders_unpack(Split1(s, NEWLINE))

\* HTTPHeaders.iter_str joined
HTTPHeaders_str(st, list) == st \o NEWLINE \o Fields_str(list)

\* version_line.startswith('WARC')
VersionLineOk(version_line) == StartsWith(version_line, S_WARC)

BadHeader(e) == [ok |-> FALSE, err |-> e, version |-> <<>>, fields |-> <<>>]

\* Header.parse, the end: version = version_line[5:], fields = Fields.parse(field_str)
Header_make(version_line, p) ==
    IF ~p.ok THEN BadHeader("ValueError")
    ELSE [ok |-> TRUE, err |-> "", version |-> Drop(version_line, 5),
          fields |-> p.list]

\* Header.parse, after b.decode().split(NEWLINE, 1)
Header_unpack(parts) ==
    IF Len(parts) < 2 THEN BadHeader("ValueError")
    ELSE IF ~VersionLineOk(parts[1]) THEN BadHeader("IOError: Wrong WARC header")
    ELSE Header_make(parts[1], Fields_parse(parts[2]))

\* Header.parse
Header_parse(b) == Header_unpack(Split1(b, NEWLINE))

-----------------------------------------------------------------------------
(* class BinaryBlock, class BlockWithPayload *)

NoBlock == [kind |-> "none", field_cls |-> "", status |-> <<>>, fields |-> <<>>,
            file_offset |-> 0, length |-> 0]

\* BinaryBlock.load: the block and the position of file_obj afterwards
BinaryBlock_load(f, pos, length) ==
    [ok |-> TRUE,
     block |-> [NoBlock EXCEPT !.kind = "BinaryBlock", !.file_offset = pos,
                               !.length = length],
     pos |-> pos + length]

\* field_cls.parse(...)
ParseEmbedded(field_cls, data) ==
    IF field_cls = "HTTPHeaders" THEN HTTPHeaders_parse(data)
    ELSE HTTPHeaders_make(<<>>, Fields_parse(data))

\* BlockWithPayload.load, the end: the payload is bound at the position reached
\* by the read (pos1) and file_obj is moved payload_length bytes on
BlockWithPayload_bind(pos1, payload_length, field_cls, parsed) ==
    [ok |-> parsed.ok,
     block |-> [kind |-> "BlockWithPayload", field_cls |-> field_cls,
                status |-> parsed.status, fields |-> parsed.list,
                file_offset |-> pos1, length |-> payload_length],
     pos |-> pos1 + payload_length]

\* BlockWithPayload.load, after file_obj.read(field_length) returned data
BlockWithPayload_fields(pos, length, field_cls, field_length, data) ==
    BlockWithPayload_bind(pos + Len(data), length - field_length, field_cls,
                          ParseEmbedded(field_cls, data))

\* BlockWithPayload.load, with field_length known
BlockWithPayload_read(f, pos, length, field_cls, field_length) ==
    BlockWithPayload_fields(pos, length, field_cls, field_length,
                            Read(f, pos, field_length))

\* BlockWithPayload.load, after the search: found = 0 is the ValueError ("No payload")
BlockWithPayload_split(f, pos, length, field_cls, found) ==
    BlockWithPayload_read(f, pos, length, field_cls,
                          IF found = 0 THEN length ELSE found)

\* BlockWithPayload.load: the block and the position of file_obj afterwards
BlockWithPayload_load(f, pos, length, field_cls) ==
    BlockWithPayload_split(f, pos, length, field_cls,
        find_file_pattern(f, pos, FIELD_DELIM_BYTES, length))

\* len(bytes(self.fields)) of a BlockWithPayload
FieldsByteLen(block) ==
    IF block.field_cls = "HTTPHeaders"
    THEN Len(HTTPHeaders_str(block.status, block.fields))
    ELSE Len(Fields_str(block.fields))

\* a length that leaves out the separating newline
BlockLength_nosep(block) ==
    IF block.kind = "BlockWithPayload"
    THEN FieldsByteLen(block) + block.length
    ELSE block.length

\* content_block.length: BinaryFileRef.length, or BlockWithPayload.length
BlockLength(block) ==
    IF block.kind = "BlockWithPayload"
    THEN FieldsByteLen(block) + Len(NEWLINE) + block.length
    ELSE block.length

-----------------------------------------------------------------------------
(* class Record *)

\* a dispatch that tests the warc-fields type by prefix
BlockClass_prefix(preserve_block, content_type) ==
    IF ~preserve_block /\ content_type # None /\ content_type # <<>>
       /\ StartsWith(content_type, S_application_http)
    THEN "HTTPHeaders"
    ELSE IF ~preserve_block /\ StartsWith(content_type, S_warc_fields)
    THEN "Fields"
    ELSE "BinaryBlock"

\* the if / elif / else of Record.load that picks the content block class
BlockClass(preserve_block, content_type) ==
    IF ~preserve_block /\ content_type # None /\ content_type # <<>>
       /\ StartsWith(content_type, S_application_http)
    THEN "HTTPHeaders"
    ELSE IF ~preserve_block /\ content_type = S_warc_fields
    THEN "Fields"
    ELSE "BinaryBlock"

\* a reconciliation that warns but leaves the header as declared
Reconcile_keep(hfields, block_length, new_content_length) ==
    [fields |-> hfields, warned |-> block_length # new_content_length]

\* if block_length != new_content_length: warn, record.content_length = new
Reconcile(hfields, block_length, new_content_length) ==
    IF block_length # new_content_length
    THEN [fields |-> Fields_setitem(hfields, S_ContentLength,
                                    IntStr(new_content_length)),
          warned |-> TRUE]
    ELSE [fields |-> hfields, warned |-> FALSE]

NoRecord == [version |-> <<>>, fields |-> <<>>, content_block |-> NoBlock,
             file_offset |-> 0]

NoLoad == [ok |-> FALSE, err |-> "", record |-> NoRecord, pos |-> 0,
           header_end |-> 0, declared |-> 0, parsed_fields |-> <<>>,
           warned |-> FALSE]

\* Record.content_length: int(self.header.fields['Content-Length'])
content_length(record) == ParseInt(Fields_get(record.fields, S_ContentLength))

BadLoad(pos, e) == [NoLoad EXCEPT !.err = e, !.pos = pos]

\* Record.load, the end: the record with the reconciled header
Record_make(pos, header_end, h, block_length, b, rec) ==
    [ok |-> TRUE, err |-> "",
     record |-> [version |-> h.version, fields |-> rec.fields,
                 content_block |-> b.block, file_offset |-> pos],
     pos |-> b.pos, header_end |-> header_end, declared |-> block_length,
     parsed_fields |-> h.fields, warned |-> rec.warned]

\* Record.load, after the content block b was loaded
Record_reconcile(pos, header_end, h, block_length, b) ==
    IF ~b.ok THEN BadLoad(pos, "ValueError")
    ELSE Record_make(pos, header_end, h, block_length, b,
                     Reconcile(h.fields, block_length, BlockLength(b.block)))

\* the content block of class cls loaded at header_end
LoadBlock(f, header_end, block_length, cls) ==
    IF cls = "BinaryBlock" THEN BinaryBlock_load(f, header_end, block_length)
    ELSE BlockWithPayload_load(f, header_end, block_length, cls)

\* Record.load, with block_length = record.content_length
Record_dispatch(f, pos, preserve_block, header_end, h, block_length) ==
    Record_reconcile(pos, header_end, h, block_length,
        LoadBlock(f, header_end, block_length,
                  BlockClass(preserve_block, Fields_get(h.fields, S_content_type))))

\* Record.load, with declared = self.header.fields['Content-Length']
Record_length(f, pos, preserve_block, header_end, h, declared) ==
    IF declared = None THEN BadLoad(pos, "TypeError")
    ELSE IF ~IsInt(declared) THEN BadLoad(pos, "ValueError")
    ELSE Record_dispatch(f, pos, preserve_block, header_end, h, ParseInt(declared))

\* Record.load, after Header.parse returned h
Record_header(f, pos, preserve_block, header_end, h) ==
    IF ~h.ok THEN BadLoad(pos, h.err)
    ELSE Record_length(f, pos, preserve_block, header_end, h,
                       Fields_get(h.fields, S_ContentLength))

\* Record.load, after the search for the end of the header
Record_found(f, pos, preserve_block, header_length) ==
    IF header_length = 0 THEN BadLoad(pos, "ValueError")
    ELSE Record_header(f, pos, preserve_block, pos + header_length,
                       Header_parse(Read(f, pos, header_length)))

\* Record.load(file_obj, preserve_block)
Record_load(f, pos, preserve_block) ==
    Record_found(f, pos, preserve_block,
                 find_file_pattern(f, pos, FIELD_DELIM_BYTES, NoLimit))

-----------------------------------------------------------------------------
(* class WARC *)

NoRR == [called |-> FALSE, preserve |-> FALSE, start |-> 0, load |-> NoLoad,
         ok |-> FALSE, err |-> "", data |-> <<>>, tell |-> 0, has_more |-> FALSE]

\* a delimiter check that only looks at the first line terminator
DelimOk_first(data) == StartsWith(data, NEWLINE)

\* data == FIELD_DELIM_BYTES
DelimOk(data) == data = FIELD_DELIM_BYTES

\* WARC.read_record, after file_object.read(len(FIELD_DELIM_BYTES)) returned data:
\* the IOError carries file_object.tell(), the position after that read
read_record_delim(f, base, pos, data) ==
    IF ~DelimOk(data)
    THEN [base EXCEPT !.err = "IOError: Blocks not separated correctly",
                      !.data = data, !.tell = pos + Len(data)]
    ELSE [base EXCEPT !.ok = TRUE, !.data = data, !.tell = pos + Len(data),
                      !.has_more = Peek(f, pos + Len(data))]

\* WARC.read_record, after Record.load returned l (or raised)
read_record_loaded(f, pos, preserve_block, l) ==
    IF ~l.ok
    THEN [NoRR EXCEPT !.called = TRUE, !.preserve = preserve_block, !.start = pos,
                      !.load = l, !.err = l.err, !.tell = l.pos]
    ELSE read_record_delim(f,
            [NoRR EXCEPT !.called = TRUE, !.preserve = preserve_block,
                         !.start = pos, !.load = l],
            l.pos, Read(f, l.pos, Len(FIELD_DELIM_BYTES)))

\* WARC.read_record(file_object, preserve_block)
read_record(f, pos, preserve_block) ==
    read_record_loaded(f, pos, preserve_block, Record_load(f, pos, preserve_block))

-----------------------------------------------------------------------------
(* The WARC sources the reader is run on *)

MaxRecords == 2

S_ContentType == <<"C","o","n","t","e","n","t","-","T","y","p","e">>
VersionGood == <<"W","A","R","C","/","1",".","0">>
VersionNoSlash == <<"W","A","R","C","X","1",".","0">>
VersionBad == <<"H","T","T","P","/","1",".","0">>
CT_http == <<"a","p","p","l","i","c","a","t","i","o","n","/","h","t","t","p",";","x">>
CT_fieldsx == <<"a","p","p","l","i","c","a","t","i","o","n","/","w","a","r","c","-","f","i","e","l","d","s",";","x">>
CT_text == <<"t","e","x","t","/","p","l","a","i","n">>
B_fields == <<"k",":"," ","v",CR,LF,CR,LF,"p","a","y">>
B_loose == <<"k",":","v",CR,LF,CR,LF>>
B_nodelim == <<"k",":"," ","v",CR,LF>>
B_http == <<"G","E","T"," ","/",CR,LF,"k",":"," ","v",CR,LF,CR,LF,"a","b">>
B_junk == <<"j","u","n","k">>
T_wrong == <<CR,LF,"a","b">>

ContentTypes == {None, S_warc_fields, CT_http, CT_fieldsx, CT_text}
Blocks == {<<>>, B_fields, B_loose, B_nodelim, B_http, B_junk}

\* how a record was written: its version line, content-type (None: no such field),
\* content block, declared Content-Length (over: how far it overstates the block;
\* zero: written with a leading zero) and the bytes written after the block
Desc(v, ct, b, over, zero, t) ==
    [version |-> v, ctype |-> ct, block |-> b, over |-> over, zero |-> zero,
     trailer |-> t]

DeclaredText(d) ==
    (IF d.zero THEN <<"0">> ELSE <<>>) \o IntStr(Len(d.block) + d.over)

\* the bytes of a record as written
RecordBytes(d) ==
    d.version \o NEWLINE
    \o (IF d.ctype = None THEN <<>>
        ELSE S_ContentType \o <<":", " ">> \o d.ctype \o NEWLINE)
    \o S_ContentLength \o <<":", " ">> \o DeclaredText(d) \o NEWLINE
    \o NEWLINE
    \o d.block
    \o d.trailer

\* the embedded header of block b parses under content-type ct
BlockParses(ct, b) ==
    IF ct # None /\ StartsWith(ct, S_application_http) THEN HTTPHeaders_parse(
          LET n == Find(b, FIELD_DELIM_BYTES) IN
          IF n = 0 THEN b ELSE SubSeq(b, 1, n + 3)).ok
    ELSE IF ct = S_warc_fields THEN Fields_parse(
          LET n == Find(b, FIELD_DELIM_BYTES) IN
          IF n = 0 THEN b ELSE SubSeq(b, 1, n + 3)).ok
    ELSE TRUE

\* a well-formed record: "WARC/" version, the true Content-Length, a content block
\* its content-type can parse, and exactly CRLF CRLF after the block
WellFormed(d) ==
    /\ d.version = VersionGood
    /\ d.over = 0
    /\ d.trailer = FIELD_DELIM_BYTES
    /\ BlockParses(d.ctype, d.block)

\* records of every shape
AnyRecords ==
    {Desc(VersionGood, ct, b, over, zero, t) :
        ct \in ContentTypes, b \in Blocks, over \in {0, 2}, zero \in BOOLEAN,
        t \in {FIELD_DELIM_BYTES, <<>>}}
    \cup {Desc(VersionGood, ct, b, 0, FALSE, t) :
        ct \in {None, S_warc_fields}, b \in {<<>>, B_fields},
        t \in {NEWLINE, T_wrong}}
    \cup {Desc(v, None, <<>>, 0, FALSE, FIELD_DELIM_BYTES) :
        v \in {VersionNoSlash, VersionBad}}

\* the well-formed records that may precede the last one
LeadRecords ==
    {Desc(VersionGood, None, <<>>, 0, FALSE, FIELD_DELIM_BYTES),
     Desc(VersionGood, S_warc_fields, B_fields, 0, FALSE, FIELD_DELIM_BYTES),
     Desc(VersionGood, CT_http, B_http, 0, TRUE, FIELD_DELIM_BYTES),
     Desc(VersionGood, CT_text, B_loose, 0, FALSE, FIELD_DELIM_BYTES)}

RECURSIVE SeqsUpTo(_, _)
SeqsUpTo(S, n) ==
    IF n = 0 THEN {<<>>}
    ELSE LET shorter == SeqsUpTo(S, n - 1) IN
         shorter \cup {Append(q, x) : q \in shorter, x \in S}

Layouts == {Append(q, d) : q \in SeqsUpTo(LeadRecords, MaxRecords - 1), d \in AnyRecords}

RECURSIVE FileBytes(_)
FileBytes(lay) ==
    IF lay = <<>> THEN <<>> ELSE RecordBytes(Head(lay)) \o FileBytes(Tail(lay))

\* the state after read_record returned r (or raised)
AfterRead(r) ==
    /\ rr' = r
    /\ cursor' = r.tell
    /\ status' = IF ~r.ok THEN "error"
                 ELSE IF r.has_more THEN "reading" ELSE "done"

\* one iteration of the while loop of WARC.read_file_object
ReadFileObjectStep ==
    /\ mode = "load"
    /\ status = "reading"
    /\ AfterRead(read_record(file, cursor, FALSE))
    /\ records' = IF rr'.ok THEN Append(records, rr'.load.record) ELSE records
    /\ UNCHANGED <<file, layout, mode, fvars, rvars>>

\* a streaming caller: WARC.read_record(f, preserve_block) until has_more is False
StreamReadRecord ==
    /\ mode = "stream"
    /\ status = "reading"
    /\ \E preserve_block \in BOOLEAN :
          AfterRead(read_record(file, cursor, preserve_block))
    /\ UNCHANGED <<file, layout, mode, records, fvars, rvars>>

NextWarc == ReadFileObjectStep \/ StreamReadRecord

-----------------------------------------------------------------------------
(* Claims about the WARC reader *)

N == Len(layout)

\* the offset at which the i-th record was written
StartOf(i) == Len(FileBytes(SubSeq(layout, 1, i - 1)))

\* the length of the header of a record as written, blank line included
HeaderLen(d) == Len(RecordBytes(d)) - Len(d.block) - Len(d.trailer)

\* the last read_record call started at a record as written
AtRecord == rr.called /\ \E i \in 1..N : StartOf(i) = rr.start

\* that record
Cur == layout[CHOOSE i \in 1..N : StartOf(i) = rr.start]

FramingError == "IOError: Blocks not separated correctly"

\* every read_record call starts where a record was written
ReadsStartAtRecords == rr.called => AtRecord

\* C3: on a source of N >= 1 well-formed records read_file_object appends exactly
\* N records in file order, has_more is True for the first N-1 and False for the
\* last, each parse starts right after the previous delimiter, the loop is done
\* after the N-th record, and a record with Content-Length 0 and no content-type
\* holds a BinaryBlock of length 0.
C3_SequentialRead ==
    (mode = "load" /\ \A i \in 1..N : WellFormed(layout[i])) =>
        /\ status # "error"
        /\ Len(records) <= N
        /\ (status = "done") = (Len(records) = N)
        /\ (rr.called => rr.ok /\ rr.has_more = (Len(records) < N))
        /\ \A i \in 1..Len(records) :
              /\ records[i].file_offset = StartOf(i)
              /\ (layout[i].ctype = None /\ layout[i].block = <<>>) =>
                    /\ records[i].content_block.kind = "BinaryBlock"
                    /\ records[i].content_block.length = 0

C3_Witness ==
    /\ mode = "load"
    /\ \A i \in 1..N : WellFormed(layout[i])
    /\ N = MaxRecords
    /\ status = "done"
    /\ Len(records) = N
    /\ ~rr.has_more
    /\ layout[N].ctype = None /\ layout[N].block = <<>>
    /\ records[N].content_block.kind = "BinaryBlock"

\* the bytes that follow the content block of the record just loaded
AfterBlock == Read(file, rr.load.pos, Len(FIELD_DELIM_BYTES))

\* C4 as stated: when the bytes after a parsed record's content block are not
\* exactly CRLF CRLF the read fails with a framing error that ends the read, and
\* the offset it reports is the end of the content block.
C4_FramingError_Original ==
    (rr.called /\ rr.load.ok /\ AfterBlock # FIELD_DELIM_BYTES) =>
        /\ status = "error"
        /\ rr.err = FramingError
        /\ rr.tell = rr.load.pos

\* C4 amended: the read fails with a framing error that ends the read and appends
\* no record; the offset it reports is the position after the delimiter read, the
\* end of the content block plus the 0 to 4 bytes that read returned.
C4_FramingError ==
    (rr.called /\ rr.load.ok /\ AfterBlock # FIELD_DELIM_BYTES) =>
        /\ status = "error"
        /\ rr.err = FramingError
        /\ rr.tell = rr.load.pos + Len(AfterBlock)
        /\ \A i \in 1..Len(records) : records[i].file_offset # rr.start

C4_Witness ==
    /\ rr.called /\ rr.load.ok
    /\ AfterBlock = NEWLINE
    /\ mode = "load"
    /\ status = "error"
    /\ Len(records) = N - 1
    /\ rr.tell = rr.load.pos + 2

IsPayloadBlock == rr.load.record.content_block.kind = "BlockWithPayload"

\* serialized fields + one CRLF + payload length of the block just loaded
Recomputed ==
    LET b == rr.load.record.content_block IN
    Len((IF b.field_cls = "HTTPHeaders" THEN b.status \o NEWLINE ELSE <<>>)
        \o Fields_str(b.fields)) + 2 + b.length

\* the record just loaded declares more than its content block holds
Overstated == AtRecord /\ rr.load.ok /\ IsPayloadBlock /\ Cur.over > 0

\* C5 as stated: a BlockWithPayload record whose Content-Length overstates its
\* header plus payload has content_length equal to the recomputed length after the
\* parse, and a length-mismatch warning was emitted.
C5_Overstated_Original ==
    Overstated =>
        /\ content_length(rr.load.record) = Recomputed
        /\ rr.load.warned

\* C5 amended: such a record has content_length equal to the recomputed length
\* after the parse; the warning is emitted exactly when the declared length
\* differs from the recomputed one, which overstating alone does not cause (the
\* payload length is the declared length minus the embedded header read).
C5_Overstated ==
    Overstated =>
        /\ content_length(rr.load.record) = Recomputed
        /\ rr.load.warned = (Len(Cur.block) + Cur.over # Recomputed)

C5_Witness ==
    /\ Overstated
    /\ ~rr.load.warned
    /\ content_length(rr.load.record) = Len(Cur.block) + Cur.over
    /\ rr.load.record.content_block.length > 0

\* C6: after a successful Record.load content_length equals content_block.length;
\* the field is overwritten, and a warning logged, only when the declared value
\* differs from the recomputed one; a BinaryBlock (so every record loaded with
\* preserve_block) keeps its declared Content-Length as written.
C6_LengthAgrees ==
    (AtRecord /\ rr.load.ok) =>
        LET rec == rr.load.record
            declared == Len(Cur.block) + Cur.over
        IN /\ content_length(rec) = BlockLength(rec.content_block)
           /\ (rec.fields # rr.load.parsed_fields \/ rr.load.warned)
                 => declared # BlockLength(rec.content_block)
           /\ rr.preserve => rec.content_block.kind = "BinaryBlock"
           /\ rec.content_block.kind = "BinaryBlock" =>
                 /\ ~rr.load.warned
                 /\ Fields_get(rec.fields, S_ContentLength) = DeclaredText(Cur)

C6_Witness ==
    /\ AtRecord /\ rr.load.ok
    /\ rr.preserve
    /\ Cur.ctype = S_warc_fields
    /\ Cur.zero
    /\ Cur.block = B_loose
    /\ Fields_get(rr.load.record.fields, S_ContentLength) = DeclaredText(Cur)

\* the class of content block the content-type of the record as written calls for
Classified ==
    LET b == rr.load.record.content_block IN
    IF rr.preserve THEN b.kind = "BinaryBlock"
    ELSE IF Cur.ctype # None /\ StartsWith(Cur.ctype, S_application_http)
    THEN b.kind = "BlockWithPayload" /\ b.field_cls = "HTTPHeaders"
    ELSE IF Cur.ctype = S_warc_fields
    THEN b.kind = "BlockWithPayload" /\ b.field_cls = "Fields"
    ELSE b.kind = "BinaryBlock"

\* the end of the block window: header end plus declared Content-Length
WindowEnd == rr.start + HeaderLen(Cur) + Len(Cur.block) + Cur.over

\* the block window runs past the end of the file and holds no CRLF CRLF
ShortWindowNoDelim ==
    /\ WindowEnd > Len(file)
    /\ Find(Drop(file, rr.start + HeaderLen(Cur)), FIELD_DELIM_BYTES) = 0

\* C7 as stated: the dispatch is the total classification by preserve_block and
\* content-type, and in every case the cursor ends declared Content-Length bytes
\* past the end of the record header.
C7_Dispatch_Original ==
    (AtRecord /\ rr.load.ok) => (Classified /\ rr.load.pos = WindowEnd)

\* C7 amended: the classification holds; the cursor ends declared Content-Length
\* bytes past the header, except for a BlockWithPayload whose window runs past the
\* end of the file without holding CRLF CRLF, where it stops at the end of the file.
C7_Dispatch ==
    (AtRecord /\ rr.load.ok) =>
        /\ Classified
        /\ rr.load.pos = IF IsPayloadBlock /\ ShortWindowNoDelim
                         THEN Len(file) ELSE WindowEnd

C7_Witness ==
    /\ AtRecord /\ rr.load.ok
    /\ ~rr.preserve
    /\ Cur.ctype = S_warc_fields
    /\ Cur.block = B_nodelim
    /\ Cur.over = 0
    /\ IsPayloadBlock
    /\ rr.load.record.content_block.length = 0
    /\ rr.load.pos = WindowEnd

\* C9: a header is accepted only when its version line begins with "WARC/"; a
\* version line without that prefix is a fatal parse error; the version of an
\* accepted header is the text after the "/".
C9_VersionLine ==
    AtRecord =>
        /\ rr.load.ok => StartsWith(Cur.version, S_WARC \o <<"/">>)
        /\ ~StartsWith(Cur.version, S_WARC \o <<"/">>) =>
              (~rr.load.ok /\ rr.err = "IOError: Wrong WARC header")
        /\ rr.load.ok => rr.load.record.version = Drop(Cur.version, 5)

-----------------------------------------------------------------------------
(* The Fields object under test *)

MaxFields == 3

\* the (name, value) pairs the callers of add() pass, and the names and values
\* the callers of fields[name] = value and del fields[name] pass
AddPairs ==
    {<< <<"a">>, <<"x">> >>,
     << <<"A">>, <<>> >>,
     << <<"b">>, <<"x">> >>,
     << <<" ", "b">>, <<"x">> >>,
     << <<"a">>, <<" ", "x">> >>,
     << <<"b">>, <<"x", CR, LF, "y">> >>}
SetNames == {<<"a">>, <<"A">>, <<"b">>}
SetValues == {<<"z">>}

NoParse == [ok |-> FALSE, list |-> <<>>]
NoOp == [op |-> "off", pre |-> <<>>, name |-> <<>>, value |-> <<>>, parsed |-> NoParse]

\* fields.add(name, value)
Add ==
    /\ last.op # "off"
    /\ Len(fields) < MaxFields
    /\ \E pair \in AddPairs :
        /\ fields' = Fields_add(fields, pair[1], pair[2])
        /\ last' = [NoOp EXCEPT !.op = "add"]
    /\ UNCHANGED <<wvars, rvars>>

\* fields[name] = value
SetItem ==
    /\ last.op # "off"
    /\ \E name \in SetNames, value \in SetValues :
        /\ Len(Fields_setitem(fields, name, value)) <= MaxFields
        /\ fields' = Fields_setitem(fields, name, value)
        /\ last' = [NoOp EXCEPT !.op = "set", !.pre = fields,
                                !.name = name, !.value = value]
    /\ UNCHANGED <<wvars, rvars>>

\* del fields[name]
DelItem ==
    /\ last.op # "off"
    /\ \E name \in SetNames :
        /\ fields' = Fields_delitem(fields, name)
        /\ last' = [NoOp EXCEPT !.op = "del", !.pre = fields, !.name = name]
    /\ UNCHANGED <<wvars, rvars>>

\* Fields.parse(str(fields))
ParseStr ==
    /\ last.op # "off"
    /\ last' = [NoOp EXCEPT !.op = "parse",
                            !.parsed = Fields_parse(Fields_str(fields))]
    /\ UNCHANGED <<fields, wvars, rvars>>

NextFields == Add \/ SetItem \/ DelItem \/ ParseStr

-----------------------------------------------------------------------------
(* Claims about Fields *)

HasChar(s, c) == \E i \in 1..Len(s) : s[i] = c

\* the precondition of the round trip as the specification states it
NamesPlain(list) ==
    \A i \in 1..Len(list) :
        ~HasChar(list[i][1], ":") /\ ~HasChar(list[i][1], CR) /\ ~HasChar(list[i][1], LF)

\* what the parser additionally needs: no name after the first looks like a
\* continuation line, no value starts with whitespace or holds a line terminator
RoundTripSafe(list) ==
    /\ NamesPlain(list)
    /\ \A i \in 2..Len(list) :
          list[i][1] = <<>> \/ list[i][1][1] \notin {" ", TAB}
    /\ \A i \in 1..Len(list) :
          /\ Find(list[i][2], NEWLINE) = 0
          /\ list[i][2] = <<>> \/ list[i][2][1] \notin Whitespace

\* C1 as stated: for every field list whose names hold no colon and no newline,
\* Fields.parse(str(fields)) holds the same pairs in the same order.
C1_RoundTrip_Original ==
    (last.op = "parse" /\ NamesPlain(fields))
        => (last.parsed.ok /\ last.parsed.list = fields)

\* C1 amended: the round trip holds when, in addition, no name after the first
\* begins with a space or tab and no value begins with whitespace or contains CRLF.
C1_RoundTrip ==
    (last.op = "parse" /\ RoundTripSafe(fields))
        => (last.parsed.ok /\ last.parsed.list = fields)

C1_Witness ==
    /\ last.op = "parse"
    /\ RoundTripSafe(fields)
    /\ Len(fields) >= 2
    /\ \E i \in 1..Len(fields) : fields[i][2] = <<>>
    /\ last.parsed.list = fields

Matching(list, name) == {i \in 1..Len(list) : SameName(list[i][1], name)}

RECURSIVE Others(_, _)
Others(list, name) ==
    IF list = <<>> THEN <<>>
    ELSE IF Lower(Head(list)[1]) = Lower(name) THEN Others(Tail(list), name)
    ELSE <<Head(list)>> \o Others(Tail(list), name)

\* C2: after fields[name] = value exactly one pair matches name ignoring case,
\* get returns value for every case variant of name, the pair sits where the first
\* match was (or at the end when there was none), and the other pairs are untouched.
C2_SetPostcondition ==
    last.op = "set" =>
        LET pre == last.pre
            m == Matching(pre, last.name)
        IN /\ Cardinality(Matching(fields, last.name)) = 1
           /\ \A n2 \in SetNames \cup {<<"B">>, <<" ", "b">>} :
                 SameName(n2, last.name) => Fields_get(fields, n2) = last.value
           /\ IF m = {}
              THEN /\ Len(fields) = Len(pre) + 1
                   /\ fields[Len(fields)] = <<last.name, last.value>>
              ELSE LET k == CHOOSE i \in m : \A j \in m : i <= j
                   IN fields[k] = <<last.name, last.value>>
           /\ Others(fields, last.name) = Others(pre, last.name)

C2_Witness ==
    /\ last.op = "set"
    /\ Cardinality(Matching(last.pre, last.name)) = 2
    /\ 1 \notin Matching(last.pre, last.name)
    /\ \E i \in Matching(last.pre, last.name) : last.pre[i][1] # last.name
    /\ fields[2] = <<last.name, last.value>>

-----------------------------------------------------------------------------
(* class BinaryFileRef *)

\* the chunk size of iter_bytes_over_source_file
ChunkSize == 4096

\* length=None of set_source_file: read until the end of the file
NoLength == -1

FileNames == {"a.warc", "b.warc.gz"}

\* filename.endswith('.gz')
IsGz(filename) == filename = "b.warc.gz"

Closed == [open |-> FALSE, pos |-> 0, gz |-> FALSE]

\* open(filename, 'rb') or util.DiskBufferedReader(gzip.GzipFile(filename))
OpenHandle(filename) == [open |-> TRUE, pos |-> 0, gz |-> IsGz(filename)]

\* if self.file_offset: file_obj.seek(self.file_offset)
SeekTo(handle, file_offset) ==
    IF file_offset # 0 THEN [handle EXCEPT !.pos = file_offset] ELSE handle

\* file_obj.read(n): the range of the file it returns, n >= 0
FileRead(size, pos, n) == [start |-> pos, len |-> Min(n, Max(0, size - pos))]

\* length = min(4096, self.length - bytes_read), or 4096 when length is None
NextLength(length, bytes_read) ==
    IF length # NoLength THEN Min(ChunkSize, length - bytes_read) ELSE ChunkSize

ItIdle == [pc |-> "idle", filename |-> "a.warc", file_offset |-> 0, length |-> 0,
           bytes_read |-> 0, chunks |-> <<>>, reused |-> FALSE, n |-> 0]

\* one iteration of the while loop, up to the yield or the break
LoopStep(g, handle, size) ==
    LET length == NextLength(g.length, g.bytes_read)
        data == FileRead(size, handle.pos, length)
        stop == data.len = 0 \/ length = 0
    IN [g |-> [g EXCEPT !.bytes_read = g.bytes_read + data.len,
                        !.pc = IF stop THEN "done" ELSE "yielded",
                        !.chunks = IF stop THEN g.chunks ELSE Append(g.chunks, data)],
        handle |-> [handle EXCEPT !.pos = handle.pos + data.len]]

\* the ranges BinaryFileRef objects are bound to by set_source_file
RefOffsets == {0, 2, 4097}
RefLengths == {NoLength, 0, 2, 4097, 8200}
FileSizeChoices == {3, 9000}

\* how many materializations a run holds
MaxReads == 2

ItOff == [ItIdle EXCEPT !.pc = "off"]

\* set_source_file(filename, offset, length) and the first next() of
\* iter_bytes_over_source_file: the handle from the cache, the seek, one iteration
Begin ==
    /\ it.pc \in {"idle", "done"}
    /\ it.n < MaxReads
    /\ \E filename \in FileNames, offset \in RefOffsets, length \in RefLengths :
         LET cached == cache[filename]
             file_obj == IF cached.open THEN cached ELSE OpenHandle(filename)
             sought == SeekTo(file_obj, offset)
             g0 == [pc |-> "start", filename |-> filename, file_offset |-> offset,
                    length |-> length, bytes_read |-> 0, chunks |-> <<>>,
                    reused |-> cached.open, n |-> it.n + 1]
             r == LoopStep(g0, sought, fsize[filename])
         IN /\ it' = r.g
            /\ cache' = [cache EXCEPT ![filename] = r.handle]
    /\ UNCHANGED <<fsize, fvars, wvars>>

\* a later next(): the generator resumes after the yield
Resume ==
    /\ it.pc = "yielded"
    /\ LET r == LoopStep(it, cache[it.filename], fsize[it.filename])
       IN /\ it' = r.g
          /\ cache' = [cache EXCEPT ![it.filename] = r.handle]
    /\ UNCHANGED <<fsize, fvars, wvars>>

NextFileRef == Begin \/ Resume

-----------------------------------------------------------------------------
(* Claims about BinaryFileRef *)

RECURSIVE TotalLen(_)
TotalLen(chunks) ==
    IF chunks = <<>> THEN 0 ELSE Head(chunks).len + TotalLen(Tail(chunks))

\* C8: with a non-negative length L the chunks are at most 4096 bytes each, their
\* total never exceeds L, and once the iteration ends the total is
\* min(L, bytes from file_offset to the end of the file); L = 0 yields no chunk.
C8_BoundedRead ==
    (it.pc \in {"yielded", "done"} /\ it.length # NoLength) =>
        /\ \A i \in 1..Len(it.chunks) : it.chunks[i].len <= ChunkSize
        /\ TotalLen(it.chunks) <= it.length
        /\ (it.length = 0 => it.chunks = <<>>)
        /\ (it.pc = "done" =>
              TotalLen(it.chunks)
                = Min(it.length, Max(0, fsize[it.filename] - it.file_offset)))

\* the number of bytes the file holds from file_offset on, cut to length
Expected(g) ==
    LET avail == Max(0, fsize[g.filename] - g.file_offset) IN
    IF g.length = NoLength THEN avail ELSE Min(g.length, avail)

\* C10: every materialization, on a fresh or on a cached handle, yields the bytes
\* of the file from its own file_offset on: skipping the seek for file_offset 0
\* does not change what is returned.
C10_ReadsFromOwnOffset ==
    /\ \A i \in 1..Len(it.chunks) :
          it.chunks[i].start = it.file_offset + TotalLen(SubSeq(it.chunks, 1, i - 1))
    /\ it.pc = "done" => TotalLen(it.chunks) = Expected(it)

-----------------------------------------------------------------------------
(* Specifications *)

\* Fields(): an empty field list; no WARC source, no BinaryFileRef in use
InitFields ==
    /\ fields = <<>>
    /\ last = [NoOp EXCEPT !.op = "init"]
    /\ file = <<>> /\ layout = <<>> /\ mode = "off" /\ cursor = 0
    /\ records = <<>> /\ status = "off" /\ rr = NoRR
    /\ fsize = [f \in FileNames |-> 0]
    /\ cache = [f \in FileNames |-> Closed]
    /\ it = ItOff

\* WARC(), and the source opened by WARC.open
InitWarc ==
    /\ layout \in Layouts
    /\ file = FileBytes(layout)
    /\ mode \in {"load", "stream"}
    /\ cursor = 0
    /\ records = <<>>
    /\ status = "reading"
    /\ rr = NoRR
    /\ fields = <<>> /\ last = NoOp
    /\ fsize = [f \in FileNames |-> 0]
    /\ cache = [f \in FileNames |-> Closed]
    /\ it = ItOff

\* the files BinaryFileRef objects name, none of them opened yet
InitFileRef ==
    /\ fsize \in [FileNames -> FileSizeChoices]
    /\ cache = [f \in FileNames |-> Closed]
    /\ it = ItIdle
    /\ fields = <<>> /\ last = NoOp
    /\ file = <<>> /\ layout = <<>> /\ mode = "off" /\ cursor = 0
    /\ records = <<>> /\ status = "off" /\ rr = NoRR

SpecFields == InitFields /\ [][NextFields]_vars
SpecWarc == InitWarc /\ [][NextWarc]_vars
SpecFileRef == InitFileRef /\ [][NextFileRef]_vars

Init == InitFields \/ InitWarc \/ InitFileRef

Next == NextFields \/ NextWarc \/ NextFileRef

Spec == Init /\ [][Next]_vars

=============================================================================
